---- MODULE Spec2Model ----
(***************************************************************************)
(* Object operations of the OSS client (src/src/object.rs) and the header  *)
(* conversion they rely on (src/src/utils.rs).                             *)
(*                                                                         *)
(* Text is a sequence of one-character strings, so that comparing a text   *)
(* with a literal and parsing it as a number are computed, not assumed.    *)
(* An XML body is a sequence of tokens.  list_object and get_object_acl    *)
(* read the body strictly forward, so the body is revealed to the reader   *)
(* chunk by chunk: the reader's state never depends on a token beyond its  *)
(* position.  `doc` keeps every token revealed so far.                     *)
(***************************************************************************)
EXTENDS Integers, Sequences, FiniteSets, TLC

VARIABLES
    op,        \* the operation in progress ("" before the call)
    focus,     \* the element name the response body is built around
    status,    \* HTTP status of the transport's response (0: none yet)
    doc,       \* tokens of the response body read so far
    items,     \* number of chunks of the body read so far
    st,        \* locals of the running operation (reader and decoder)
    outcome,   \* what the operation returned, [kind |-> "running"] before
    hashmap,   \* the caller's header map of the last call
    wire       \* the request handed to the transport by the last call

vars == <<op, focus, status, doc, items, st, outcome, hashmap, wire>>

\* Largest number of body chunks the transport delivers in one response.
MaxItems == 3

-----------------------------------------------------------------------------
(* Text *)

Digits == {"0", "1", "2", "3", "4", "5", "6", "7", "8", "9"}

DigitVal(c) ==
    CASE c = "0" -> 0 [] c = "1" -> 1 [] c = "2" -> 2 [] c = "3" -> 3
      [] c = "4" -> 4 [] c = "5" -> 5 [] c = "6" -> 6 [] c = "7" -> 7
      [] c = "8" -> 8 [] c = "9" -> 9

RECURSIVE DecimalValue(_, _)
DecimalValue(cs, acc) ==
    IF cs = <<>> THEN acc
    ELSE DecimalValue(Tail(cs), 10 * acc + DigitVal(Head(cs)))

ParseError == -1

\* str::parse::<usize>: an optional "+", then one or more decimal digits.
\* (Texts of the model stay far below usize::MAX, the overflow error is
\* out of reach.)
parse_usize(str) ==
    LET ds == IF str # <<>> /\ Head(str) = "+" THEN Tail(str) ELSE str
    IN  IF ds = <<>> \/ \E i \in 1..Len(ds) : ds[i] \notin Digits
        THEN ParseError
        ELSE DecimalValue(ds, 0)

T_true  == <<"t", "r", "u", "e">>
T_TRUE  == <<"T", "R", "U", "E">>
T_false == <<"f", "a", "l", "s", "e">>
T_1     == <<"1">>
T_10    == <<"1", "0">>
T_20    == <<"2", "0">>
T_abc   == <<"a", "b", "c">>
T_a     == <<"a">>
T_b     == <<"b">>

-----------------------------------------------------------------------------
(* XML tokens and the quick_xml reader *)

StartTag(n) == [tag |-> "Start", name |-> n, text |-> <<>>]
EndTag(n)   == [tag |-> "End", name |-> n, text |-> <<>>]
TextTok(x)  == [tag |-> "Text", name |-> "", text |-> x]
EofTok      == [tag |-> "Eof", name |-> "", text |-> <<>>]

\* The raw characters of one token, as they stand in the body.
RawTok(tok) ==
    CASE tok.tag = "Start" -> <<"<", tok.name, ">">>
      [] tok.tag = "End"   -> <<"</", tok.name, ">">>
      [] OTHER           -> tok.text

RECURSIVE Raw(_)
Raw(toks) == IF toks = <<>> THEN <<>> ELSE RawTok(Head(toks)) \o Raw(Tail(toks))

\* The innermost open element, "" at the top level.
TopOpen(opened) == IF opened = <<>> THEN "" ELSE opened[Len(opened)]

\* Reader::read_event on the next token: the event, and the reader's stack
\* of open element names (end names are checked against it, the default).
ReadEvent(opened, tok) ==
    CASE tok.tag = "Start" ->
            [name |-> tok.name, opened |-> Append(opened, tok.name), kind |-> "Start"]
      [] tok.tag = "End" ->
            IF TopOpen(opened) = tok.name
            THEN [name |-> tok.name,
                  opened |-> SubSeq(opened, 1, Len(opened) - 1), kind |-> "End"]
            ELSE [name |-> tok.name, opened |-> opened, kind |-> "Err"]
      [] tok.tag = "Text" -> [name |-> "", opened |-> opened, kind |-> "Text"]
      [] OTHER -> [name |-> "", opened |-> opened, kind |-> "Eof"]

Running == [kind |-> "running", err |-> "", value |-> <<>>]
Ok(v)   == [kind |-> "Ok", err |-> "", value |-> v]
Err(e)  == [kind |-> "Err", err |-> e, value |-> <<>>]
Panic(e) == [kind |-> "Panic", err |-> e, value |-> <<>>]

-----------------------------------------------------------------------------
(* list_object: the listing decoder *)

BucketNames == {"Name", "Prefix", "Marker", "MaxKeys", "Delimiter", "IsTruncated"}
ObjectNames == {"Key", "LastModified", "ETag", "Type", "Size", "StorageClass",
                "ID", "DisplayName"}
\* The start tags whose text list_object captures with reader.read_text.
CaptureNames == BucketNames \cup ObjectNames

\* The locals of list_object before its loop.
ListLocals ==
    [opened |-> <<>>, reading |-> "", depth |-> 0, span |-> <<>>,
     bucket_name |-> <<>>, prefix |-> <<>>, marker |-> <<>>, max_keys |-> <<>>,
     delimiter |-> <<>>, is_truncated |-> FALSE,
     key |-> <<>>, last_modified |-> <<>>, etag |-> <<>>, type |-> <<>>,
     size |-> 0, storage_class |-> <<>>, owner_id |-> <<>>,
     owner_display_name |-> <<>>,
     result |-> <<>>]

\* reader.read_text(..)? == "true"
IsTruncatedCI(text) == text \in {T_true, T_TRUE}
IsTruncatedText(text) == text = T_true

\* The assignment of one arm of the match on the start tag's name, once
\* read_text has returned the element's text.
list_object_arm(s, name, text) ==
    CASE name = "Name"         -> [s EXCEPT !.bucket_name = text]
      [] name = "Prefix"       -> [s EXCEPT !.prefix = text]
      [] name = "Marker"       -> [s EXCEPT !.marker = text]
      [] name = "MaxKeys"      -> [s EXCEPT !.max_keys = text]
      [] name = "Delimiter"    -> [s EXCEPT !.delimiter = text]
      [] name = "IsTruncated"  -> [s EXCEPT !.is_truncated = IsTruncatedText(text)]
      [] name = "Key"          -> [s EXCEPT !.key = text]
      [] name = "LastModified" -> [s EXCEPT !.last_modified = text]
      [] name = "ETag"         -> [s EXCEPT !.etag = text]
      [] name = "Type"         -> [s EXCEPT !.type = text]
      [] name = "Size"         -> [s EXCEPT !.size = parse_usize(text)]
      [] name = "StorageClass" -> [s EXCEPT !.storage_class = text]
      [] name = "ID"           -> [s EXCEPT !.owner_id = text]
      [] name = "DisplayName"  -> [s EXCEPT !.owner_display_name = text]
      [] OTHER                 -> s

\* Object::new over clones of the scratch locals.
ObjectNew(s) ==
    [key |-> s.key, last_modified |-> s.last_modified, etag |-> s.etag,
     type |-> s.type, size |-> s.size, storage_class |-> s.storage_class,
     owner_id |-> s.owner_id, owner_display_name |-> s.owner_display_name]

PushObjectDedup(s) ==
    IF s.result # <<>> /\ s.result[Len(s.result)].key = s.key THEN s
    ELSE [s EXCEPT !.result = Append(@, ObjectNew(s))]
PushObjectReset(s) ==
    [s EXCEPT !.result = Append(@, ObjectNew(s)),
              !.key = <<>>, !.last_modified = <<>>, !.size = 0, !.etag = <<>>,
              !.type = <<>>, !.storage_class = <<>>, !.owner_id = <<>>,
              !.owner_display_name = <<>>]
\* The arm of the end tag of Contents: result.push(object).
PushObject(s) == [s EXCEPT !.result = Append(@, ObjectNew(s))]

\* ListObjects::new at end of file.
ListObjectsNew(s) ==
    [bucket_name |-> s.bucket_name, prefix |-> s.prefix, marker |-> s.marker,
     max_keys |-> s.max_keys, delimiter |-> s.delimiter,
     is_truncated |-> s.is_truncated, objects |-> s.result]

\* The step of Reader::read_text (read_to_end) on one more event, shared by
\* list_object and get_object_acl: `done` once the matching end tag is read.
ReadTextStep(s, tok) ==
    LET ev == ReadEvent(s.opened, tok)
        s1 == [s EXCEPT !.opened = ev.opened]
    IN  CASE ev.kind = "Err" -> [st |-> s1, outcome |-> Err("Xml"), done |-> FALSE]
          [] ev.kind = "Eof" ->
                [st |-> s1, outcome |-> Err("UnexpectedEof"), done |-> FALSE]
          [] ev.kind = "Start" /\ ev.name = s.reading ->
                [st |-> [s1 EXCEPT !.depth = @ + 1, !.span = Append(@, tok)],
                 outcome |-> Running, done |-> FALSE]
          [] ev.kind = "End" /\ ev.name = s.reading ->
                IF s.depth = 0
                THEN [st |-> s1, outcome |-> Running, done |-> TRUE]
                ELSE [st |-> [s1 EXCEPT !.depth = @ - 1, !.span = Append(@, tok)],
                      outcome |-> Running, done |-> FALSE]
          [] OTHER ->
                [st |-> [s1 EXCEPT !.span = Append(@, tok)],
                 outcome |-> Running, done |-> FALSE]

\* Back in the operation's own loop after read_text.
EndReadText(s) == [s EXCEPT !.reading = "", !.depth = 0, !.span = <<>>]

\* One event of list_object: an iteration of its loop, or of the read_text
\* it is in.
list_object_step(s, tok) ==
    IF s.reading # ""
    THEN LET r == ReadTextStep(s, tok)
             text == Raw(s.span)
         IN  IF ~r.done THEN [st |-> r.st, outcome |-> r.outcome]
             ELSE IF s.reading = "Size" /\ parse_usize(text) = ParseError
             THEN [st |-> EndReadText(r.st), outcome |-> Panic("ParseIntError")]
             ELSE [st |-> list_object_arm(EndReadText(r.st), s.reading, text),
                   outcome |-> Running]
    ELSE LET ev == ReadEvent(s.opened, tok)
             s1 == [s EXCEPT !.opened = ev.opened]
         IN  CASE ev.kind = "Start" /\ ev.name \in CaptureNames ->
                     [st |-> [s1 EXCEPT !.reading = ev.name], outcome |-> Running]
               [] ev.kind = "End" /\ ev.name = "Contents" ->
                     [st |-> PushObject(s1), outcome |-> Running]
               [] ev.kind = "Eof" -> [st |-> s1, outcome |-> Ok(ListObjectsNew(s1))]
               [] ev.kind = "Err" -> [st |-> s1, outcome |-> Panic("Xml")]
               [] OTHER -> [st |-> s1, outcome |-> Running]

RECURSIVE list_object_feed(_, _)
list_object_feed(s, toks) ==
    IF toks = <<>> THEN [st |-> s, outcome |-> Running]
    ELSE LET r == list_object_step(s, Head(toks))
         IN  IF r.outcome.kind # "running" THEN r
             ELSE list_object_feed(r.st, Tail(toks))

-----------------------------------------------------------------------------
(* The transport's responses *)

\* Status codes the transport answers with, around the borders of 2xx.
Statuses == {199, 200, 299, 300, 404}

\* The statuses of the responses to list_object, which never reads the status:
\* one 2xx, one not.
ListStatuses == {200, 404}

IsSuccessBelow400(code) == code < 400
\* StatusCode::is_success
is_success(code) == 200 <= code /\ code <= 299

\* Element names a listing body is built around, one per response: every
\* name list_object matches, and two it does not.
FocusNames == CaptureNames \cup {"Owner", "CommonPrefixes"}

TextsFor(n) ==
    CASE n = "IsTruncated" -> {T_true, T_TRUE, T_1, T_false}
      [] n = "Size"        -> {T_10, T_abc}
      [] OTHER             -> {T_a, T_b}

\* <n>text</n>
Leaf(n, text) ==
    <<StartTag(n)>> \o (IF text = <<>> THEN <<>> ELSE <<TextTok(text)>>)
        \o <<EndTag(n)>>
\* <Contents><n>text</n></Contents>
Block(n, text) == <<StartTag("Contents")>> \o Leaf(n, text) \o <<EndTag("Contents")>>
\* <Contents><Key>k</Key><Size>s</Size></Contents>
ObjectXml(k, s) ==
    <<StartTag("Contents")>> \o Leaf("Key", k) \o Leaf("Size", s)
        \o <<EndTag("Contents")>>

Idle == [kind |-> "idle", err |-> "", value |-> <<>>]
NoWire == [verb |-> "", headers |-> {}, signed |-> {}]

InitList ==
    /\ op = ""
    /\ focus \in FocusNames
    /\ status = 0
    /\ doc = <<>>
    /\ items = 0
    /\ st = ListLocals
    /\ outcome = Idle
    /\ hashmap = <<>>
    /\ wire = NoWire

ListResponseGated(code) == IF is_success(code) THEN Running ELSE Err("ListError")
\* What list_object does with the response once send() returned it: resp.text()
\* goes to the reader, resp.status() is never read.
list_object_response(code) == Running

\* list_object up to its loop: build_request, send, resp.text().
list_object_call ==
    /\ op = ""
    /\ op' = "list_object"
    /\ \/ \E code \in ListStatuses :
            /\ status' = code
            /\ outcome' = list_object_response(code)
       \/ /\ status' = 0
          /\ outcome' = Err("Transport")
    /\ st' = ListLocals
    /\ UNCHANGED <<focus, doc, items, hashmap, wire>>

\* list_object reads the tokens of one more chunk of the body.
ListRead(toks) ==
    /\ op = "list_object"
    /\ outcome.kind = "running"
    /\ items < MaxItems
    /\ LET r == list_object_feed(st, toks)
       IN  /\ st' = r.st
           /\ outcome' = r.outcome
    /\ doc' = doc \o toks
    /\ items' = items + 1
    /\ UNCHANGED <<op, focus, status, hashmap, wire>>

list_object_leaf == \E text \in TextsFor(focus) : ListRead(Leaf(focus, text))

list_object_empty_contents ==
    /\ op = "list_object"
    /\ ListRead(Leaf("Contents", <<>>))

list_object_block == \E text \in TextsFor(focus) : ListRead(Block(focus, text))

list_object_object ==
    /\ op = "list_object"
    /\ \E ks \in {<<T_a, T_10>>, <<T_b, T_20>>} : ListRead(ObjectXml(ks[1], ks[2]))

list_object_open == \E n \in {focus, "Contents"} : ListRead(<<StartTag(n)>>)

list_object_close ==
    /\ op = "list_object"
    /\ TopOpen(st.opened) # ""
    /\ ListRead(<<EndTag(TopOpen(st.opened))>>)

\* An end tag that closes nothing the reader has open.
list_object_stray_end ==
    /\ op = "list_object"
    /\ TopOpen(st.opened) # "Contents"
    /\ ListRead(<<EndTag("Contents")>>)

list_object_eof ==
    /\ op = "list_object"
    /\ outcome.kind = "running"
    /\ LET r == list_object_step(st, EofTok)
       IN  /\ st' = r.st
           /\ outcome' = r.outcome
    /\ UNCHANGED <<op, focus, status, doc, items, hashmap, wire>>

NextList ==
    \/ list_object_call
    \/ list_object_leaf
    \/ list_object_empty_contents
    \/ list_object_block
    \/ list_object_object
    \/ list_object_open
    \/ list_object_close
    \/ list_object_stray_end
    \/ list_object_eof

SpecList == InitList /\ [][NextList]_vars

-----------------------------------------------------------------------------
(* to_headers: the caller's header map as a reqwest HeaderMap *)

UpperLetters == <<"A", "B", "C", "D", "E", "F", "G", "H", "I", "J", "K", "L", "M",
                  "N", "O", "P", "Q", "R", "S", "T", "U", "V", "W", "X", "Y", "Z">>
LowerLetters == <<"a", "b", "c", "d", "e", "f", "g", "h", "i", "j", "k", "l", "m",
                  "n", "o", "p", "q", "r", "s", "t", "u", "v", "w", "x", "y", "z">>
Range(f) == {f[i] : i \in DOMAIN f}

LowerChar(c) ==
    IF c \in Range(UpperLetters)
    THEN LowerLetters[CHOOSE i \in DOMAIN UpperLetters : UpperLetters[i] = c]
    ELSE c
LowerOf(str) == [i \in DOMAIN str |-> LowerChar(str[i])]

\* The characters of an HTTP header name (a token), and the control
\* characters a header value may not hold.
NameChars ==
    Range(UpperLetters) \cup Range(LowerLetters) \cup Digits
        \cup {"!", "#", "$", "%", "&", "*", "+", "-", ".", "^", "_", "|", "~"}
ControlChars == {"\n", "\r"}

\* HeaderName::from_bytes accepts the name (and lower-cases it).
ValidHeaderName(str) == str # <<>> /\ \A i \in DOMAIN str : str[i] \in NameChars
\* str::parse::<HeaderValue> accepts the value.
ValidHeaderValue(str) == \A i \in DOMAIN str : str[i] \notin ControlChars

\* HeaderMap::insert on a map kept as a set of <<name, value>>: the value
\* replaces the one the name had.
HeaderInsert(headers, name, val) ==
    {h \in headers : h[1] # name} \cup {<<name, val>>}

\* One iteration of to_headers' loop, on the entry (key, val).
to_headers_iter(headers, key, val) ==
    IF ~ValidHeaderName(key) THEN Err("InvalidHeaderName")
    ELSE IF ~ValidHeaderValue(val) THEN Err("InvalidHeaderValue")
    ELSE Ok(HeaderInsert(headers, LowerOf(key), val))

\* The results to_headers may return, over the orders in which a HashMap
\* may hand out its entries.
RECURSIVE to_headers_results(_, _, _)
to_headers_results(map, left, headers) ==
    IF left = {} THEN {Ok(headers)}
    ELSE UNION {LET r == to_headers_iter(headers, key, map[key])
                IN  IF r.kind = "Err" THEN {r}
                    ELSE to_headers_results(map, left \ {key}, r.value)
                : key \in left}

H_XA  == <<"X", "-", "A">>
H_xa  == <<"x", "-", "a">>
H_xb  == <<"x", "-", "b">>
H_bad == <<"b", " ", "d">>
V_1   == <<"1">>
V_2   == <<"2">>
V_bad == <<"1", "\n">>

HeaderKeys == {H_XA, H_xa, H_xb, H_bad}
HeaderVals == {V_1, V_2, V_bad}
\* The maps a caller may pass: any of the keys, each with any of the values.
HashMaps == UNION {[K -> HeaderVals] : K \in SUBSET HeaderKeys}

NoLocals == [headers |-> {}, left |-> {}]

InitHdr ==
    /\ op = ""
    /\ focus = ""
    /\ status = 0
    /\ doc = <<>>
    /\ items = 0
    /\ st = NoLocals
    /\ outcome = Idle
    /\ hashmap = <<>>
    /\ wire = NoWire

\* to_headers is called with map.
to_headers_call ==
    /\ op = ""
    /\ \E map \in HashMaps :
          /\ hashmap' = map
          /\ st' = [headers |-> {}, left |-> DOMAIN map]
    /\ op' = "to_headers"
    /\ outcome' = Running
    /\ UNCHANGED <<focus, status, doc, items, wire>>

\* The loop takes the next entry hashmap.iter() hands out.
to_headers_next ==
    /\ op = "to_headers"
    /\ outcome.kind = "running"
    /\ \E key \in st.left :
          LET r == to_headers_iter(st.headers, key, hashmap[key])
          IN  IF r.kind = "Err"
              THEN /\ outcome' = r
                   /\ st' = [st EXCEPT !.left = @ \ {key}]
              ELSE /\ outcome' = outcome
                   /\ st' = [headers |-> r.value, left |-> st.left \ {key}]
    /\ UNCHANGED <<op, focus, status, doc, items, hashmap, wire>>

\* Ok(headers) after the last entry.
to_headers_return ==
    /\ op = "to_headers"
    /\ outcome.kind = "running"
    /\ st.left = {}
    /\ outcome' = Ok(st.headers)
    /\ UNCHANGED <<op, focus, status, doc, items, st, hashmap, wire>>

NextHdr == to_headers_call \/ to_headers_next \/ to_headers_return

SpecHdr == InitHdr /\ [][NextHdr]_vars

-----------------------------------------------------------------------------
(* build_request and the status-gated operations *)

VendorPrefix == <<"x", "-", "o", "s", "s", "-">>
H_copy_source ==
    VendorPrefix \o <<"c", "o", "p", "y", "-", "s", "o", "u", "r", "c", "e">>
H_meta == VendorPrefix \o <<"m">>
H_Meta == <<"X", "-", "O", "S", "S", "-", "M">>
H_type == <<"c", "t">>

\* A header the signature has to cover: its lower-cased name starts with
\* the vendor prefix.
IsVendorHeader(name) ==
    /\ Len(name) >= Len(VendorPrefix)
    /\ SubSeq(LowerOf(name), 1, Len(VendorPrefix)) = VendorPrefix

\* The header maps callers pass to the object operations.
CallerMaps ==
    UNION {[K -> {V_1, V_bad}] : K \in SUBSET {H_meta, H_Meta, H_type}}
\* The copy sources callers pass.
Sources == {<<"/", "b", "/", "a">>, <<"/", "b", "\n">>}
\* The bodies the transport answers with.
Bodies == {<<>>, T_a, T_abc}

\* build_request: the caller's headers converted by to_headers, and the
\* Authorization computed over the canonical string, which holds the
\* vendor-prefixed headers of that map.  `signed` stands for the
\* Authorization value: the headers its signature covers.
build_request(verb, map) ==
    {IF r.kind = "Err" THEN r
     ELSE Ok([verb |-> verb, headers |-> r.value,
              signed |-> {h \in r.value : IsVendorHeader(h[1])}])
     : r \in to_headers_results(map, DOMAIN map, {})}

\* Err(OSSError::Object(ObjectError::..{msg})): msg ends with the status.
ObjectError(variant, text, code) ==
    [kind |-> "Err", err |-> variant, value |-> <<text, code>>]

\* if resp.status().is_success() { Ok(..) } else { Err(..) }
StatusGate(code, value, variant, text) ==
    IF is_success(code) THEN Ok(value) ELSE ObjectError(variant, text, code)

\* What the transport does with a request: no response (send fails), a
\* response whose body cannot be read to its end, or a complete response.
Answers == {"none", "broken body", "response"}

InitOps ==
    /\ op = ""
    /\ focus = ""
    /\ status = 0
    /\ doc = <<>>
    /\ items = 0
    /\ st = ""
    /\ outcome = Idle
    /\ hashmap = <<>>
    /\ wire = NoWire

\* An operation that returned before it sent anything.
NotSent(name, map, r) ==
    /\ op' = name
    /\ hashmap' = map
    /\ outcome' = r
    /\ wire' = NoWire
    /\ status' = 0
    /\ doc' = <<>>
    /\ st' = ""
    /\ UNCHANGED <<focus, items>>

\* An operation that sent request and returned r on the transport's answer.
Sent(name, map, request, answer, code, body, r) ==
    /\ op' = name
    /\ hashmap' = map
    /\ wire' = request
    /\ st' = answer
    /\ status' = IF answer = "none" THEN 0 ELSE code
    /\ doc' = IF answer = "response" THEN body ELSE <<>>
    /\ outcome' = IF answer = "none" THEN Err("Transport") ELSE r
    /\ UNCHANGED <<focus, items>>

\* get_object's result on a response: the body is read only under a 2xx.
get_object_result(answer, code, body) ==
    IF is_success(code) /\ answer = "broken body" THEN Err("Transport")
    ELSE StatusGate(code, body, "GetError", "can not get object, status code: ")

get_object ==
    \E map \in CallerMaps : \E b \in build_request("GET", map) :
        \/ b.kind = "Err" /\ NotSent("get_object", map, b)
        \/ /\ b.kind = "Ok"
           /\ \E answer \in Answers, code \in Statuses, body \in Bodies :
                 Sent("get_object", map, b.value, answer, code, body,
                      get_object_result(answer, code, body))

put_object_from_buffer ==
    \E map \in CallerMaps : \E b \in build_request("PUT", map) :
        \/ b.kind = "Err" /\ NotSent("put_object_from_buffer", map, b)
        \/ /\ b.kind = "Ok"
           /\ \E answer \in Answers, code \in Statuses, body \in Bodies :
                 Sent("put_object_from_buffer", map, b.value, answer, code, body,
                      StatusGate(code, <<>>, "PutError",
                                 "can not put object, status code: "))

\* load_file comes after build_request and before the request is sent.
put_object_from_file ==
    \E map \in CallerMaps : \E b \in build_request("PUT", map) :
        \/ b.kind = "Err" /\ NotSent("put_object_from_file", map, b)
        \/ b.kind = "Ok" /\ NotSent("put_object_from_file", map, Err("Io"))
        \/ /\ b.kind = "Ok"
           /\ \E answer \in Answers, code \in Statuses, body \in Bodies :
                 Sent("put_object_from_file", map, b.value, answer, code, body,
                      StatusGate(code, <<>>, "PutError",
                                 "can not put object, status code: "))

\* headers.insert("x-oss-copy-source", src.as_ref().parse()?) on the headers
\* build_request returned.
copy_source_insert(request, src) ==
    [request EXCEPT !.headers = HeaderInsert(@, H_copy_source, src)]

copy_object_from_object ==
    \E map \in CallerMaps : \E b \in build_request("PUT", map) :
        \/ b.kind = "Err" /\ NotSent("copy_object_from_object", map, b)
        \/ /\ b.kind = "Ok"
           /\ \E src \in Sources :
                 IF ~ValidHeaderValue(src)
                 THEN NotSent("copy_object_from_object", map,
                              Err("InvalidHeaderValue"))
                 ELSE \E answer \in Answers, code \in Statuses, body \in Bodies :
                         Sent("copy_object_from_object", map,
                              copy_source_insert(b.value, src), answer, code, body,
                              StatusGate(code, <<>>, "CopyError",
                                         "can not copy object, status code: "))

\* delete_object passes an empty header map of its own.
delete_object ==
    \E b \in build_request("DELETE", <<>>) :
        /\ b.kind = "Ok"
        /\ \E answer \in Answers, code \in Statuses, body \in Bodies :
              Sent("delete_object", <<>>, b.value, answer, code, body,
                   StatusGate(code, <<>>, "DeleteError",
                              "can not delete object, status code: "))

NextOps ==
    \/ get_object
    \/ put_object_from_buffer
    \/ put_object_from_file
    \/ copy_object_from_object
    \/ delete_object

SpecOps == InitOps /\ [][NextOps]_vars

-----------------------------------------------------------------------------
(* get_object_acl *)

AclLocals == [opened |-> <<>>, reading |-> "", depth |-> 0, span |-> <<>>,
              grant |-> <<>>]

GrantArmFirst(s, text) == IF s.grant = <<>> THEN [s EXCEPT !.grant = text] ELSE s
\* grant = reader.read_text(e.name())?.to_string()
GrantArm(s, text) == [s EXCEPT !.grant = text]

\* One event of get_object_acl: an iteration of its loop, or of the read_text
\* it is in.
get_object_acl_step(s, tok) ==
    IF s.reading # ""
    THEN LET r == ReadTextStep(s, tok)
         IN  IF ~r.done THEN [st |-> r.st, outcome |-> r.outcome]
             ELSE [st |-> GrantArm(EndReadText(r.st), Raw(s.span)),
                   outcome |-> Running]
    ELSE LET ev == ReadEvent(s.opened, tok)
             s1 == [s EXCEPT !.opened = ev.opened]
         IN  CASE ev.kind = "Start" /\ ev.name = "Grant" ->
                     [st |-> [s1 EXCEPT !.reading = ev.name], outcome |-> Running]
               [] ev.kind = "Eof" -> [st |-> s1, outcome |-> Ok(s1.grant)]
               [] ev.kind = "Err" -> [st |-> s1, outcome |-> Panic("Xml")]
               [] OTHER -> [st |-> s1, outcome |-> Running]

RECURSIVE get_object_acl_feed(_, _)
get_object_acl_feed(s, toks) ==
    IF toks = <<>> THEN [st |-> s, outcome |-> Running]
    ELSE LET r == get_object_acl_step(s, Head(toks))
         IN  IF r.outcome.kind # "running" THEN r
             ELSE get_object_acl_feed(r.st, Tail(toks))

\* The element names an ACL body is made of.
AclNames == {"Grant", "AccessControlList"}

InitAcl ==
    /\ op = ""
    /\ focus = "Grant"
    /\ status = 0
    /\ doc = <<>>
    /\ items = 0
    /\ st = AclLocals
    /\ outcome = Idle
    /\ hashmap = <<>>
    /\ wire = NoWire

\* get_object_acl up to its loop: get_object with the acl sub-resource and no
\* headers, then String::from_utf8 on the bytes it returned.
get_object_acl_call ==
    /\ op = ""
    /\ op' = "get_object_acl"
    /\ \E b \in build_request("GET", <<>>) :
       \E answer \in Answers, code \in Statuses, utf8 \in BOOLEAN :
          LET r == get_object_result(answer, code, <<>>)
          IN  /\ wire' = b.value
              /\ status' = IF answer = "none" THEN 0 ELSE code
              /\ outcome' = IF answer = "none" THEN Err("Transport")
                            ELSE IF r.kind = "Err" THEN r
                            ELSE IF ~utf8 THEN Err("FromUtf8")
                            ELSE Running
    /\ st' = AclLocals
    /\ UNCHANGED <<focus, doc, items, hashmap>>

\* get_object_acl reads the tokens of one more chunk of the body.
AclRead(toks) ==
    /\ op = "get_object_acl"
    /\ outcome.kind = "running"
    /\ items < MaxItems
    /\ LET r == get_object_acl_feed(st, toks)
       IN  /\ st' = r.st
           /\ outcome' = r.outcome
    /\ doc' = doc \o toks
    /\ items' = items + 1
    /\ UNCHANGED <<op, focus, status, hashmap, wire>>

get_object_acl_leaf ==
    /\ op = "get_object_acl"
    /\ \E text \in {T_a, T_b} : AclRead(Leaf("Grant", text))

get_object_acl_open ==
    /\ op = "get_object_acl"
    /\ \E n \in AclNames : AclRead(<<StartTag(n)>>)

get_object_acl_close ==
    /\ op = "get_object_acl"
    /\ TopOpen(st.opened) # ""
    /\ AclRead(<<EndTag(TopOpen(st.opened))>>)

get_object_acl_stray_end ==
    /\ op = "get_object_acl"
    /\ TopOpen(st.opened) # "Grant"
    /\ AclRead(<<EndTag("Grant")>>)

get_object_acl_eof ==
    /\ op = "get_object_acl"
    /\ outcome.kind = "running"
    /\ LET r == get_object_acl_step(st, EofTok)
       IN  /\ st' = r.st
           /\ outcome' = r.outcome
    /\ UNCHANGED <<op, focus, status, doc, items, hashmap, wire>>

NextAcl ==
    \/ get_object_acl_call
    \/ get_object_acl_leaf
    \/ get_object_acl_open
    \/ get_object_acl_close
    \/ get_object_acl_stray_end
    \/ get_object_acl_eof

SpecAcl == InitAcl /\ [][NextAcl]_vars

-----------------------------------------------------------------------------
(* The body as a document: what its elements are, read off its structure *)

Min(S) == CHOOSE x \in S : \A y \in S : x <= y
Max(S) == CHOOSE x \in S : \A y \in S : x >= y

\* For each token of d, the elements that are open before it.
RECURSIVE OpenBefore(_, _)
OpenBefore(d, stack) ==
    IF d = <<>> THEN <<>>
    ELSE LET tok == Head(d)
             next == CASE tok.tag = "Start" -> Append(stack, tok.name)
                       [] tok.tag = "End" /\ stack # <<>> ->
                             SubSeq(stack, 1, Len(stack) - 1)
                       [] OTHER -> stack
         IN  <<stack>> \o OpenBefore(Tail(d), next)

\* The token lies inside an element whose text list_object captures.
InCaptured(anc) == \E k \in 1..Len(anc) : anc[k] \in CaptureNames
InContents(anc) == \E k \in 1..Len(anc) : anc[k] = "Contents"

\* The end tag of the element that starts at i (0: not closed yet).
EndOf(d, A, i) ==
    LET J == {j \in (i + 1)..Len(d) :
                d[j].tag = "End" /\ Len(A[j]) = Len(A[i]) + 1}
    IN  IF J = {} THEN 0 ELSE Min(J)
\* The start tag of the element that ends at j.
StartOf(d, A, j) ==
    Max({i \in 1..(j - 1) : d[i].tag = "Start" /\ Len(A[i]) + 1 = Len(A[j])})

\* The closed elements called name that are not inside a captured element.
Elements(d, A, name) ==
    {i \in 1..Len(d) : /\ d[i] = StartTag(name)
                       /\ ~InCaptured(A[i])
                       /\ EndOf(d, A, i) # 0}
ElementText(d, A, i) == Raw(SubSeq(d, i + 1, EndOf(d, A, i) - 1))

\* The last element called name that is closed before position pos, and that
\* satisfies Within (0: none).
LastElement(d, A, name, pos, Within(_)) ==
    LET C == {i \in Elements(d, A, name) : EndOf(d, A, i) < pos /\ Within(i)}
    IN  IF C = {} THEN 0 ELSE Max(C)

Anywhere(i) == TRUE

\* The end tags of Contents in d: all of them, and those not inside a
\* captured element.
ContentsEnds(d) == {j \in 1..Len(d) : d[j] = EndTag("Contents")}
VisibleContentsEnds(d, A) == {j \in ContentsEnds(d) : ~InCaptured(A[j])}
Rank(S, j) == Cardinality({k \in S : k <= j})

\* The field of an object record, and of a listing, that an element fills.
ObjectField(o, name) ==
    CASE name = "Key"          -> o.key
      [] name = "LastModified" -> o.last_modified
      [] name = "ETag"         -> o.etag
      [] name = "Type"         -> o.type
      [] name = "Size"         -> o.size
      [] name = "StorageClass" -> o.storage_class
      [] name = "ID"           -> o.owner_id
      [] name = "DisplayName"  -> o.owner_display_name
BucketField(l, name) ==
    CASE name = "Name"        -> l.bucket_name
      [] name = "Prefix"      -> l.prefix
      [] name = "Marker"      -> l.marker
      [] name = "MaxKeys"     -> l.max_keys
      [] name = "Delimiter"   -> l.delimiter
      [] name = "IsTruncated" -> l.is_truncated
\* The value a field takes from an element's text, and without any element.
ValueOf(name, text) ==
    CASE name = "Size"        -> parse_usize(text)
      [] name = "IsTruncated" -> text = T_true
      [] OTHER                -> text
DefaultOf(name) ==
    CASE name = "Size" -> 0 [] name = "IsTruncated" -> FALSE [] OTHER -> <<>>
ValueAt(d, A, name, i) ==
    IF i = 0 THEN DefaultOf(name) ELSE ValueOf(name, ElementText(d, A, i))

ListReturned == op = "list_object" /\ outcome.kind = "Ok"
\* All of doc has gone through the decoder.
ListConsumed == op = "list_object" /\ outcome.kind \in {"running", "Ok"}

-----------------------------------------------------------------------------
(* Claims about list_object *)

\* The key and the size of record o are those of the last Key and the last
\* Size element, if any, between the start tag at b and the end tag at j.
CarriesKeyAndSize(d, A, o, b, j) ==
    LET k  == LastElement(d, A, "Key", j, LAMBDA i : i > b)
        sz == LastElement(d, A, "Size", j, LAMBDA i : i > b)
    IN  /\ k # 0 => o.key = ValueAt(d, A, "Key", k)
        /\ sz # 0 => o.size = ValueAt(d, A, "Size", sz)

\* C1 as stated: a listing returned by list_object has exactly one record per
\* closed Contents block of the body, in the order of the blocks, the i-th
\* record carrying the Key and Size read inside the i-th block.
C1_OneRecordPerClosedBlock ==
    ListReturned =>
        LET A == OpenBefore(doc, <<>>)
            E == ContentsEnds(doc)
            B == {StartOf(doc, A, j) : j \in E}
            objects == outcome.value.objects
        IN  /\ Len(objects) = Cardinality(E)
            /\ \A j \in E :
                  LET b == StartOf(doc, A, j)
                  IN  CarriesKeyAndSize(doc, A, objects[Rank(B, b)], b, j)

\* C1, amended: a listing returned by list_object has exactly one record per
\* Contents end tag that is not inside an element whose text is captured, in
\* the order of these end tags, the i-th record carrying the last Key and the
\* last Size captured inside the i-th of these blocks, when there is one.
C1_OneRecordPerContentsEndRead ==
    ListReturned =>
        LET A == OpenBefore(doc, <<>>)
            E == VisibleContentsEnds(doc, A)
            objects == outcome.value.objects
        IN  /\ Len(objects) = Cardinality(E)
            /\ \A j \in E :
                  CarriesKeyAndSize(doc, A, objects[Rank(E, j)],
                                    StartOf(doc, A, j), j)

\* Two Contents blocks with different keys and sizes were decoded in order.
C1_Witness ==
    /\ ListReturned
    /\ Len(outcome.value.objects) = 2
    /\ outcome.value.objects[1].key = T_a /\ outcome.value.objects[1].size = 10
    /\ outcome.value.objects[2].key = T_b /\ outcome.value.objects[2].size = 20

\* C2 as stated: when list_object meets a Size element whose text is not a
\* non-negative integer, it returns a MalformedListing error (no panic, no
\* zero in its place).
C2_MalformedSizeIsAnError ==
    LET A == OpenBefore(doc, <<>>)
    IN  (/\ op = "list_object"
         /\ \E i \in Elements(doc, A, "Size") :
               parse_usize(ElementText(doc, A, i)) = ParseError)
        => outcome = Err("MalformedListing")

\* C3: the listing's is_truncated is true exactly when the body has an
\* IsTruncated element and the text of the last one read is the literal
\* "true"; any other text, and no element, give false.
C3_IsTruncatedLiteral ==
    ListReturned =>
        LET A == OpenBefore(doc, <<>>)
            i == LastElement(doc, A, "IsTruncated", Len(doc) + 1, Anywhere)
        IN  outcome.value.is_truncated
                = (i # 0 /\ ElementText(doc, A, i) = T_true)

\* A listing whose IsTruncated text is "TRUE" was returned, not truncated.
C3_Witness ==
    /\ ListReturned
    /\ ~outcome.value.is_truncated
    /\ doc = Leaf("IsTruncated", T_TRUE)

\* C7 as stated: the bucket-level fields of the listing come from elements
\* outside every Contents block only: an element of one of these names inside
\* a Contents block leaves them as they were.
C7_BucketFieldsOutsideContentsOnly ==
    ListReturned =>
        LET A == OpenBefore(doc, <<>>)
        IN  \A name \in BucketNames :
               BucketField(outcome.value, name)
                   = ValueAt(doc, A, name,
                             LastElement(doc, A, name, Len(doc) + 1,
                                         LAMBDA i : ~InContents(A[i])))

\* C8: every record pushed at a Contents end tag holds, for each of its eight
\* fields, the value of the last element of that field captured anywhere
\* before that end tag (empty or zero when there is none): nothing is reset
\* between blocks.
C8_ScratchCarriedForward ==
    ListConsumed =>
        LET A == OpenBefore(doc, <<>>)
            E == VisibleContentsEnds(doc, A)
        IN  /\ Len(st.result) = Cardinality(E)
            /\ \A j \in E : \A name \in ObjectNames :
                  ObjectField(st.result[Rank(E, j)], name)
                      = ValueAt(doc, A, name,
                                LastElement(doc, A, name, j, Anywhere))

\* The second block is empty and its record repeats the first one's field.
C8_Witness ==
    /\ ListReturned
    /\ focus \in ObjectNames
    /\ \E text \in TextsFor(focus) :
          /\ doc = Block(focus, text) \o Leaf("Contents", <<>>)
          /\ Len(outcome.value.objects) = 2
          /\ ObjectField(outcome.value.objects[2], focus) = ValueOf(focus, text)
          /\ ObjectField(outcome.value.objects[2], focus) # DefaultOf(focus)

\* What decoding body d to its end gives, whatever the response's status.
BodyResult(d) ==
    LET r == list_object_feed(ListLocals, d)
    IN  IF r.outcome.kind # "running" THEN r.outcome
        ELSE list_object_step(r.st, EofTok).outcome

\* C9: once the transport has answered, with any status, list_object's
\* result is the result of decoding the body: it is never an error made from
\* the status, and a body that decodes gives a listing under a non-2xx status.
C9_ListNotStatusGated ==
    (op = "list_object" /\ status # 0) =>
        /\ outcome.kind # "idle"
        /\ outcome.kind = "Err" => outcome.err \in {"Xml", "UnexpectedEof"}
        /\ outcome.kind # "running" => outcome = BodyResult(doc)

\* A listing with an object was returned from a 404 response.
C9_Witness ==
    /\ ListReturned
    /\ status = 404
    /\ Len(outcome.value.objects) >= 1

-----------------------------------------------------------------------------
(* Claims about get_object_acl *)

InGrant(anc) == \E k \in 1..Len(anc) : anc[k] = "Grant"
\* The closed Grant elements that are not inside another Grant element.
GrantElements(d, A) ==
    {i \in 1..Len(d) : /\ d[i] = StartTag("Grant")
                       /\ ~InGrant(A[i])
                       /\ EndOf(d, A, i) # 0}

AclReturned == op = "get_object_acl" /\ outcome.kind = "Ok"

\* C6 as stated: get_object_acl returns the text of the first Grant element
\* of the response; later Grant elements do not change it.
C6_FirstGrantWins ==
    AclReturned =>
        LET A == OpenBefore(doc, <<>>)
            G == GrantElements(doc, A)
        IN  G # {} => outcome.value = ElementText(doc, A, Min(G))

\* C6, amended: get_object_acl returns the text of the last Grant element of
\* the response (of those not inside another Grant element), and the empty
\* string when there is none.
C6_LastGrantWins ==
    AclReturned =>
        LET A == OpenBefore(doc, <<>>)
            G == GrantElements(doc, A)
        IN  outcome.value = IF G = {} THEN <<>> ELSE ElementText(doc, A, Max(G))

\* Two Grant elements with different texts were read, the second is returned.
C6_Witness ==
    /\ AclReturned
    /\ doc = Leaf("Grant", T_a) \o Leaf("Grant", T_b)
    /\ outcome.value = T_b

-----------------------------------------------------------------------------
(* Claims about the status-gated operations and about to_headers *)

GatedOps == {"get_object", "put_object_from_buffer", "put_object_from_file",
             "copy_object_from_object", "delete_object"}
ErrorOf(name) ==
    CASE name = "get_object"              -> "GetError"
      [] name = "put_object_from_buffer"  -> "PutError"
      [] name = "put_object_from_file"    -> "PutError"
      [] name = "copy_object_from_object" -> "CopyError"
      [] name = "delete_object"           -> "DeleteError"

\* C4: once the transport has returned a response, each of the five
\* operations succeeds exactly under a 2xx status; under any other status it
\* returns its own error variant carrying the status; under 2xx get_object
\* returns the body's bytes and the others the unit value.
C4_StatusGated ==
    (op \in GatedOps /\ st = "response") =>
        IF status \in 200..299
        THEN outcome = Ok(IF op = "get_object" THEN doc ELSE <<>>)
        ELSE /\ outcome.kind = "Err"
             /\ outcome.err = ErrorOf(op)
             /\ outcome.value[2] = status

\* get_object returned the body of a complete 299 response.
C4_Witness ==
    /\ op = "get_object"
    /\ st = "response"
    /\ status = 299
    /\ outcome = Ok(T_abc)

\* C5 as stated: to_headers returns an error and no header map, or a header
\* map that holds every supplied value under its (lower-cased) name.
C5_NoHeaderDropped ==
    (op = "to_headers" /\ outcome.kind \in {"Ok", "Err"}) =>
        \/ outcome.kind = "Err" /\ outcome.value = <<>>
        \/ /\ outcome.kind = "Ok"
           /\ \A key \in DOMAIN hashmap :
                 <<LowerOf(key), hashmap[key]>> \in outcome.value

\* C10 as stated: every vendor-prefixed header of a request handed to the
\* transport is one of the headers its Authorization signature covers.
C10_VendorHeadersSigned ==
    \A h \in wire.headers : IsVendorHeader(h[1]) => h \in wire.signed

====
